---- MODULE Spec2Model ----
(***************************************************************************)
(* STM32 internal flash low level driver (flash.c).                        *)
(*                                                                         *)
(* The driver is modelled one API call per action.  The HAL (unlock, lock, *)
(* program, erase) is the environment: every HAL call may succeed or fail. *)
(* Addresses and sizes are uint32_t in the source; here the address space  *)
(* and the flash layout are scaled down, and every uint32_t expression is   *)
(* reduced modulo the size of the address space, so that wrap-around        *)
(* happens in the model where it happens in the code.                      *)
(***************************************************************************)
EXTENDS Integers, Sequences, FiniteSets, TLC

(***************************************************************************)
(* Scaled layout.  All addresses are derived from page counts, so that     *)
(* bank bases stay page aligned whatever the page size.                    *)
(***************************************************************************)
\* FLASH_PAGE_SIZE: bytes per page (scaled)
PageSize == 4
\* pages per bank (scaled)
FLASH_PAGE_NB == 2
\* page number, in the address space, at which the flash starts (scaled)
FlashBasePage == 1
\* pages of address space left above the largest accepted request (scaled)
TopPages == 1

\* program unit: one double word, sizeof(uint64_t)
DWordBytes == 8
\* read unit: one word
WordBytes == 4

\* flash_status_t, declared in flash.h
eFLASH_OK == 0
eFLASH_ERROR == 1
\* the value of the C constant false, as assigned to a flash_status_t
CFalse == 0

eFLASH_BANK_1 == 0
eFLASH_BANK_2 == 1
eFLASH_BANK_NUM_OF == 2

FLASH_CFG_PAGE_SIZE_BYTE == PageSize
FLASH_BASE == FlashBasePage * PageSize
FLASH_CFG_BANK1_START_ADDR == FLASH_BASE
FLASH_CFG_BANK2_START_ADDR == FLASH_BASE + FLASH_PAGE_NB * PageSize

\* number of values of a uint32_t (scaled): the flash, then room for the
\* largest size the guard accepts, then TopPages
AddrSpace == (FlashBasePage + 4 * FLASH_PAGE_NB + TopPages) * PageSize

U32(x) == x % AddrSpace

gu32_flash_base(bank) ==
    IF bank = eFLASH_BANK_1 THEN FLASH_CFG_BANK1_START_ADDR
                            ELSE FLASH_CFG_BANK2_START_ADDR

\* build variants: flash.c with FLASH_CFG_DUAL_BANK_MODE_EN = 0 or 1, and the
\* older single-file driver
Variants == {"single", "dual", "legacy"}

\* pages of flash the variant has
TotalPages(variant) ==
    IF variant = "dual" THEN 2 * FLASH_PAGE_NB ELSE FLASH_PAGE_NB

\* flash_cfg.h: the user region, a run of whole pages of the flash, and the
\* assertion switch
Configs ==
    UNION { { [variant |-> v, assert_en |-> a,
               start |-> FLASH_BASE + sp * PageSize,
               size |-> np * PageSize] :
                 a \in BOOLEAN, sp \in 0..1, np \in {1, TotalPages(v)} } :
            v \in Variants }

VARIABLES
    cfg,          \* compile-time configuration (flash_cfg.h)
    gb_is_init,   \* static bool gb_is_init
    locked,       \* flash controller lock state (FLASH_CR.LOCK)
    clk_en,       \* flash clock enabled (RCC)
    halted,       \* an enabled FLASH_ASSERT has failed
    inited_once,  \* history: some flash_init call has succeeded
    since_init,   \* history: a flash_init call has returned eFLASH_OK and
                  \* flash_deinit has not been called since
    call          \* the last API call: its arguments, result and HAL operations

vars == <<cfg, gb_is_init, locked, clk_en, halted, inited_once, since_init, call>>

NoCall ==
    [fn |-> "none", addr |-> 0, size |-> 0, null |-> FALSE,
     ret |-> eFLASH_OK, ops |-> <<>>, was_init |-> FALSE,
     was_since_init |-> FALSE, bank_data |-> <<>>]

Init ==
    /\ cfg \in { c \in Configs :
                   /\ (c.start - FLASH_BASE) + c.size <= TotalPages(c.variant) * PageSize }
    /\ gb_is_init = FALSE
    /\ locked = TRUE
    /\ clk_en = FALSE
    /\ halted = FALSE
    /\ inited_once = FALSE
    /\ since_init = FALSE
    /\ call = NoCall

\* FLASH_CFG_START_ADDR, FLASH_CFG_SIZE_BYTE
FLASH_CFG_START_ADDR == cfg.start
FLASH_CFG_SIZE_BYTE == cfg.size

Addrs == 0..(AddrSpace - 1)
Sizes == 0..(FLASH_CFG_SIZE_BYTE + 1)

\* FLASH_ASSERT(x): compiled out unless FLASH_CFG_ASSERT_EN; an enabled
\* assertion that fails stops the program
AssertFails(x) == cfg.assert_en /\ ~x

Called(fn, addr, size, null, ret, ops, bank_data) ==
    [fn |-> fn, addr |-> addr, size |-> size, null |-> null,
     ret |-> ret, ops |-> ops, was_init |-> gb_is_init,
     was_since_init |-> since_init, bank_data |-> bank_data]

(***************************************************************************)
(* flash_init                                                              *)
(***************************************************************************)
\* an init that unlocks whatever the flag says
flash_init_unguarded(unlock_ok) ==
    [ops |-> << [op |-> "clk_enable"], [op |-> "wait_bsy"],
                [op |-> "unlock", ok |-> unlock_ok] >>,
     status |-> IF unlock_ok THEN eFLASH_OK ELSE eFLASH_ERROR,
     is_init |-> unlock_ok,
     locked |-> IF unlock_ok THEN FALSE ELSE locked,
     clk_en |-> TRUE]

\* an init that sets the flag whatever HAL_FLASH_Unlock returns
flash_init_ignores_unlock(unlock_ok) ==
    IF gb_is_init = FALSE
    THEN [ops |-> << [op |-> "clk_enable"], [op |-> "wait_bsy"],
                     [op |-> "unlock", ok |-> unlock_ok] >>,
          status |-> IF unlock_ok THEN eFLASH_OK ELSE eFLASH_ERROR,
          is_init |-> TRUE,
          locked |-> IF unlock_ok THEN FALSE ELSE locked,
          clk_en |-> TRUE]
    ELSE [ops |-> <<>>, status |-> eFLASH_OK, is_init |-> gb_is_init,
          locked |-> locked, clk_en |-> clk_en]

flash_init(unlock_ok) ==
    IF gb_is_init = FALSE
    THEN [ops |-> << [op |-> "clk_enable"], [op |-> "wait_bsy"],
                     [op |-> "unlock", ok |-> unlock_ok] >>,
          status |-> IF unlock_ok THEN eFLASH_OK ELSE eFLASH_ERROR,
          is_init |-> unlock_ok,
          locked |-> IF unlock_ok THEN FALSE ELSE locked,
          clk_en |-> TRUE]
    ELSE [ops |-> <<>>, status |-> eFLASH_OK, is_init |-> gb_is_init,
          locked |-> locked, clk_en |-> clk_en]

FlashInit ==
    /\ ~halted /\ call.fn = "none"
    /\ \E unlock_ok \in BOOLEAN :
         LET r == flash_init(unlock_ok) IN
         /\ gb_is_init' = r.is_init
         /\ locked' = r.locked
         /\ clk_en' = r.clk_en
         /\ inited_once' = (inited_once \/ (~gb_is_init /\ r.is_init))
         /\ since_init' = (since_init \/ r.status = eFLASH_OK)
         /\ call' = Called("init", 0, 0, FALSE, r.status, r.ops, <<>>)
    /\ UNCHANGED <<cfg, halted>>

(***************************************************************************)
(* flash_deinit                                                            *)
(***************************************************************************)
\* a deinit that locks whatever the flag says
flash_deinit_unguarded(lock_ok) ==
    IF ~lock_ok
    THEN [ops |-> << [op |-> "lock", ok |-> FALSE] >>,
          status |-> eFLASH_ERROR, is_init |-> gb_is_init,
          locked |-> locked, clk_en |-> clk_en]
    ELSE [ops |-> << [op |-> "lock", ok |-> TRUE], [op |-> "clk_disable"] >>,
          status |-> eFLASH_OK, is_init |-> FALSE,
          locked |-> TRUE, clk_en |-> FALSE]

flash_deinit(lock_ok) ==
    IF gb_is_init = TRUE
    THEN IF ~lock_ok
         THEN [ops |-> << [op |-> "lock", ok |-> FALSE] >>,
               status |-> eFLASH_ERROR, is_init |-> gb_is_init,
               locked |-> locked, clk_en |-> clk_en]
         ELSE [ops |-> << [op |-> "lock", ok |-> TRUE], [op |-> "clk_disable"] >>,
               status |-> eFLASH_OK, is_init |-> FALSE,
               locked |-> TRUE, clk_en |-> FALSE]
    ELSE [ops |-> <<>>, status |-> eFLASH_OK, is_init |-> gb_is_init,
          locked |-> locked, clk_en |-> clk_en]

FlashDeinit ==
    /\ ~halted /\ call.fn = "none"
    /\ \E lock_ok \in BOOLEAN :
         LET r == flash_deinit(lock_ok) IN
         /\ gb_is_init' = r.is_init
         /\ locked' = r.locked
         /\ clk_en' = r.clk_en
         /\ call' = Called("deinit", 0, 0, FALSE, r.status, r.ops, <<>>)
    /\ since_init' = FALSE
    /\ UNCHANGED <<cfg, halted, inited_once>>

(***************************************************************************)
(* flash_is_init: null says that p_is_init is NULL; on success the flag   *)
(* read is recorded as the one operation of the call                       *)
(***************************************************************************)
flash_is_init(null) ==
    IF AssertFails(~null)
    THEN [halt |-> TRUE, status |-> eFLASH_OK, ops |-> <<>>]
    ELSE IF ~null
         THEN [halt |-> FALSE, status |-> eFLASH_OK,
               ops |-> << [op |-> "out", value |-> gb_is_init] >>]
         ELSE [halt |-> FALSE, status |-> eFLASH_ERROR, ops |-> <<>>]

FlashIsInit ==
    /\ ~halted /\ call.fn = "none"
    /\ \E null \in BOOLEAN :
         LET r == flash_is_init(null) IN
         /\ halted' = r.halt
         /\ call' = Called("is_init", 0, 0, null, r.status, r.ops, <<>>)
    /\ UNCHANGED <<cfg, gb_is_init, locked, clk_en, inited_once, since_init>>

(***************************************************************************)
(* The entry guard of flash_write, flash_read and flash_erase              *)
(***************************************************************************)
\* a guard that forgets the lower bound
RegionGuardNoStart(addr, size) ==
    (size <= FLASH_CFG_SIZE_BYTE)

RegionGuard(addr, size) ==
    (addr >= FLASH_CFG_START_ADDR) /\ (size <= FLASH_CFG_SIZE_BYTE)

\* the HAL's answers to the calls of one API call, in call order:
\* TRUE is HAL_OK
HalAnswers(n) == [1..n -> BOOLEAN]

\* the most program operations an accepted write can issue
MaxPrograms == (FLASH_CFG_SIZE_BYTE + DWordBytes - 1) \div DWordBytes

(***************************************************************************)
(* flash_write: null says that p_data is NULL                              *)
(***************************************************************************)
RECURSIVE WriteLoop(_, _, _, _, _)
WriteLoop(addr, size, dword, hal, acc) ==
    IF ~(dword < size) THEN acc
    ELSE LET flash_addr == U32(addr + dword)
             ok == hal[Len(acc.ops) + 1]
             op == [op |-> "program", addr |-> flash_addr, off |-> dword,
                    len |-> DWordBytes, ok |-> ok]
         IN  IF ~ok
             THEN [status |-> eFLASH_ERROR, ops |-> Append(acc.ops, op)]
             ELSE WriteLoop(addr, size, U32(dword + DWordBytes), hal,
                            [acc EXCEPT !.ops = Append(@, op)])

flash_write(addr, size, null, hal) ==
    IF \/ AssertFails(gb_is_init = TRUE)
       \/ AssertFails(RegionGuard(addr, size))
       \/ AssertFails(~null)
    THEN [halt |-> TRUE, status |-> eFLASH_OK, ops |-> <<>>]
    ELSE IF (gb_is_init = TRUE) /\ RegionGuard(addr, size) /\ ~null
         THEN LET r == WriteLoop(addr, size, 0, hal,
                                 [status |-> eFLASH_OK, ops |-> <<>>])
              IN  [halt |-> FALSE, status |-> r.status, ops |-> r.ops]
         ELSE [halt |-> FALSE, status |-> eFLASH_ERROR, ops |-> <<>>]

\* a write that drops the init flag when a program operation fails
FlashWriteClearsFlag ==
    /\ ~halted /\ call.fn = "none"
    /\ \E addr \in Addrs, size \in Sizes, null \in BOOLEAN :
         \E hal \in HalAnswers(MaxPrograms) :
           LET r == flash_write(addr, size, null, hal) IN
           /\ halted' = r.halt
           /\ gb_is_init' = (gb_is_init /\ \A i \in 1..Len(r.ops) : r.ops[i].ok)
           /\ call' = Called("write", addr, size, null, r.status, r.ops, <<>>)
    /\ UNCHANGED <<cfg, locked, clk_en, inited_once, since_init>>

FlashWrite ==
    /\ ~halted /\ call.fn = "none"
    /\ \E addr \in Addrs, size \in Sizes, null \in BOOLEAN :
         \E hal \in HalAnswers(MaxPrograms) :
           LET r == flash_write(addr, size, null, hal) IN
           /\ halted' = r.halt
           /\ call' = Called("write", addr, size, null, r.status, r.ops, <<>>)
    /\ UNCHANGED <<cfg, gb_is_init, locked, clk_en, inited_once, since_init>>

(***************************************************************************)
(* flash_read: null says that p_data is NULL                               *)
(***************************************************************************)
RECURSIVE ReadLoop(_, _, _, _)
ReadLoop(addr, size, word, ops) ==
    IF ~(word < size) THEN ops
    ELSE LET flash_addr == U32(addr + word)
             op == [op |-> "read", addr |-> flash_addr, off |-> word,
                    len |-> WordBytes]
         IN  ReadLoop(addr, size, U32(word + WordBytes), Append(ops, op))

flash_read(addr, size, null) ==
    IF \/ AssertFails(gb_is_init = TRUE)
       \/ AssertFails(RegionGuard(addr, size))
       \/ AssertFails(~null)
    THEN [halt |-> TRUE, status |-> eFLASH_OK, ops |-> <<>>]
    ELSE IF (gb_is_init = TRUE) /\ RegionGuard(addr, size) /\ ~null
         THEN [halt |-> FALSE, status |-> eFLASH_OK,
               ops |-> ReadLoop(addr, size, 0, <<>>)]
         ELSE [halt |-> FALSE, status |-> eFLASH_ERROR, ops |-> <<>>]

FlashRead ==
    /\ ~halted /\ call.fn = "none"
    /\ \E addr \in Addrs, size \in Sizes, null \in BOOLEAN :
         LET r == flash_read(addr, size, null) IN
         /\ halted' = r.halt
         /\ call' = Called("read", addr, size, null, r.status, r.ops, <<>>)
    /\ UNCHANGED <<cfg, gb_is_init, locked, clk_en, inited_once, since_init>>

(***************************************************************************)
(* flash_count_page: uint32_t arithmetic                                   *)
(***************************************************************************)
\* a count that takes the first byte after the range for its last byte
flash_count_page_end_exclusive(addr, size) ==
    LET start_sector_num == addr \div FLASH_CFG_PAGE_SIZE_BYTE
        end_sector_num == U32(addr + size) \div FLASH_CFG_PAGE_SIZE_BYTE
    IN  U32(end_sector_num + AddrSpace - start_sector_num + 1)

flash_count_page(addr, size) ==
    LET start_sector_num == addr \div FLASH_CFG_PAGE_SIZE_BYTE
        end_sector_num == U32(addr + size + AddrSpace - 1) \div FLASH_CFG_PAGE_SIZE_BYTE
    IN  U32(end_sector_num + AddrSpace - start_sector_num + 1)

\* FLASH_EraseInitTypeDef as handed to HAL_FLASHEx_Erase, and the HAL's answer
EraseRequest(type, bank, page, nb, ok) ==
    [op |-> "erase", type |-> type, bank |-> bank, page |-> page,
     nb |-> nb, ok |-> ok]

(***************************************************************************)
(* flash_erase_single_bank, and the body of the older flash_erase          *)
(***************************************************************************)
flash_erase_single_bank(addr, size, hal) ==
    LET start_page == U32(addr + AddrSpace - FLASH_BASE) \div FLASH_CFG_PAGE_SIZE_BYTE
        num_of_pages == flash_count_page(addr, size)
    IN  IF AssertFails(num_of_pages <= FLASH_PAGE_NB)
        THEN [halt |-> TRUE, status |-> eFLASH_OK, ops |-> <<>>, bank_data |-> <<>>]
        ELSE [halt |-> FALSE,
              status |-> IF hal[1] THEN eFLASH_OK ELSE CFalse,
              ops |-> << EraseRequest("PAGES", eFLASH_BANK_1, start_page,
                                      num_of_pages, hal[1]) >>,
              bank_data |-> <<>>]

\* the older single-file driver: the accepted branch of its flash_erase
flash_erase_legacy(addr, size, hal) ==
    LET start_page == U32(addr + AddrSpace - FLASH_BASE) \div FLASH_CFG_PAGE_SIZE_BYTE
        num_of_pages == flash_count_page(addr, size)
    IN  IF AssertFails(num_of_pages <= FLASH_PAGE_NB)
        THEN [halt |-> TRUE, status |-> eFLASH_OK, ops |-> <<>>, bank_data |-> <<>>]
        ELSE [halt |-> FALSE,
              status |-> IF hal[1] THEN eFLASH_OK ELSE CFalse,
              ops |-> << EraseRequest("PAGES", eFLASH_BANK_1, start_page,
                                      num_of_pages, hal[1]) >>,
              bank_data |-> <<>>]

(***************************************************************************)
(* flash_erase_dual_bank                                                   *)
(***************************************************************************)
Banks == 0..(eFLASH_BANK_NUM_OF - 1)

\* a split that gives bank 1 the whole size when the range crosses into
\* bank 2
SplitByBankNoTruncate(addr, size) ==
    LET zero == [b \in Banks |-> [addr |-> 0, size |-> 0]] IN
    IF addr < FLASH_CFG_BANK2_START_ADDR
    THEN IF U32(addr + size) < FLASH_CFG_BANK2_START_ADDR
         THEN [zero EXCEPT ![eFLASH_BANK_1] = [addr |-> addr, size |-> size]]
         ELSE LET size1 == U32(FLASH_CFG_BANK2_START_ADDR + AddrSpace - addr) IN
              [zero EXCEPT
                 ![eFLASH_BANK_1] = [addr |-> addr, size |-> size],
                 ![eFLASH_BANK_2] = [addr |-> FLASH_CFG_BANK2_START_ADDR,
                                     size |-> U32(size + AddrSpace - size1)]]
    ELSE [zero EXCEPT ![eFLASH_BANK_2] = [addr |-> addr, size |-> size]]

\* lines 180-206: the split of the range over the banks
SplitByBank(addr, size) ==
    LET zero == [b \in Banks |-> [addr |-> 0, size |-> 0]] IN
    IF addr < FLASH_CFG_BANK2_START_ADDR
    THEN IF U32(addr + size) < FLASH_CFG_BANK2_START_ADDR
         THEN [zero EXCEPT ![eFLASH_BANK_1] = [addr |-> addr, size |-> size]]
         ELSE LET size1 == U32(FLASH_CFG_BANK2_START_ADDR + AddrSpace - addr) IN
              [zero EXCEPT
                 ![eFLASH_BANK_1] = [addr |-> addr, size |-> size1],
                 ![eFLASH_BANK_2] = [addr |-> FLASH_CFG_BANK2_START_ADDR,
                                     size |-> U32(size + AddrSpace - size1)]]
    ELSE [zero EXCEPT ![eFLASH_BANK_2] = [addr |-> addr, size |-> size]]

\* a mass erase also when more pages than the bank has are counted
EraseTypeForAtLeast(num_of_pages) ==
    IF num_of_pages >= FLASH_PAGE_NB THEN "MASSERASE" ELSE "PAGES"

\* line 223: mass erase if all pages of the bank are to be erased
EraseTypeFor(num_of_pages) ==
    IF num_of_pages = FLASH_PAGE_NB THEN "MASSERASE" ELSE "PAGES"

\* lines 209-241: the loop over the banks; acc carries status, the requests
\* issued and the Page and NbPages fields of flash_erase, which persist
\* from one iteration to the next
RECURSIVE EraseBankLoop(_, _, _, _)
EraseBankLoop(bank, bank_data, hal, acc) ==
    IF ~(bank < eFLASH_BANK_NUM_OF) \/ acc.halt THEN acc
    ELSE IF bank_data[bank].size > 0
         THEN LET start_page ==
                      U32(bank_data[bank].addr + AddrSpace - gu32_flash_base(bank))
                          \div FLASH_CFG_PAGE_SIZE_BYTE
                  num_of_pages ==
                      flash_count_page(bank_data[bank].addr, bank_data[bank].size)
                  type == EraseTypeFor(num_of_pages)
                  page == IF type = "PAGES" THEN start_page ELSE acc.page
                  nb == IF type = "PAGES" THEN num_of_pages ELSE acc.nb
                  ok == hal[Len(acc.ops) + 1]
              IN  IF AssertFails(num_of_pages <= FLASH_PAGE_NB)
                  THEN [acc EXCEPT !.halt = TRUE]
                  ELSE EraseBankLoop(bank + 1, bank_data, hal,
                         [halt |-> FALSE,
                          status |-> IF ok THEN acc.status ELSE CFalse,
                          ops |-> Append(acc.ops,
                                         EraseRequest(type, bank, page, nb, ok)),
                          page |-> page, nb |-> nb])
         ELSE EraseBankLoop(bank + 1, bank_data, hal, acc)

flash_erase_dual_bank(addr, size, hal) ==
    LET bank_data == SplitByBank(addr, size)
        r == EraseBankLoop(0, bank_data, hal,
                           [halt |-> FALSE, status |-> eFLASH_OK, ops |-> <<>>,
                            page |-> 0, nb |-> 0])
    IN  [halt |-> r.halt, status |-> r.status, ops |-> r.ops,
         bank_data |-> bank_data]

(***************************************************************************)
(* flash_erase                                                             *)
(***************************************************************************)
flash_erase(addr, size, hal) ==
    IF \/ AssertFails(gb_is_init = TRUE)
       \/ AssertFails(RegionGuard(addr, size))
    THEN [halt |-> TRUE, status |-> eFLASH_OK, ops |-> <<>>, bank_data |-> <<>>]
    ELSE IF (gb_is_init = TRUE) /\ RegionGuard(addr, size)
         THEN IF cfg.variant = "dual"
              THEN flash_erase_dual_bank(addr, size, hal)
              ELSE IF cfg.variant = "single"
                   THEN flash_erase_single_bank(addr, size, hal)
                   ELSE flash_erase_legacy(addr, size, hal)
         ELSE [halt |-> FALSE, status |-> eFLASH_ERROR, ops |-> <<>>,
               bank_data |-> <<>>]

FlashErase ==
    /\ ~halted /\ call.fn = "none"
    /\ \E addr \in Addrs, size \in Sizes :
         \E hal \in HalAnswers(eFLASH_BANK_NUM_OF) :
           LET r == flash_erase(addr, size, hal) IN
           /\ halted' = r.halt
           /\ call' = Called("erase", addr, size, FALSE, r.status, r.ops,
                             r.bank_data)
    /\ UNCHANGED <<cfg, gb_is_init, locked, clk_en, inited_once, since_init>>

(***************************************************************************)
(* The caller takes the result, and is free to make its next call          *)
(***************************************************************************)
Return ==
    /\ ~halted /\ call.fn # "none"
    /\ call' = NoCall
    /\ UNCHANGED <<cfg, gb_is_init, locked, clk_en, halted, inited_once, since_init>>

Next ==
    \/ FlashInit
    \/ FlashDeinit
    \/ FlashIsInit
    \/ FlashWrite
    \/ FlashRead
    \/ FlashErase
    \/ Return

Spec == Init /\ [][Next]_vars

(***************************************************************************)
(* flash_count_page on its own: the function applied to every address and  *)
(* every size of the address space, whatever the guard of flash_erase      *)
(* would let through                                                       *)
(***************************************************************************)
CountPage ==
    /\ ~halted /\ call.fn = "none"
    /\ \E addr \in Addrs, size \in 0..AddrSpace :
         call' = Called("count_page", addr, size, FALSE,
                        flash_count_page(addr, size), <<>>, <<>>)
    /\ UNCHANGED <<cfg, gb_is_init, locked, clk_en, halted, inited_once, since_init>>

NextCount ==
    \/ CountPage
    \/ Return

SpecCount == Init /\ [][NextCount]_vars

(***************************************************************************)
(* Vocabulary of the properties                                            *)
(***************************************************************************)
RegionEnd == FLASH_CFG_START_ADDR + FLASH_CFG_SIZE_BYTE

DataCalls == {"read", "write", "erase"}

\* the last call is over: it returned to its caller
Returned == call.fn # "none" /\ ~halted

\* the last call failed the input validation of its entry point
ValidationFails ==
    \/ ~call.was_init
    \/ call.addr < FLASH_CFG_START_ADDR
    \/ call.size > FLASH_CFG_SIZE_BYTE
    \/ (call.fn \in {"read", "write"} /\ call.null)

\* the last call passed the input validation of its entry point
Accepted == call.fn \in DataCalls /\ ~ValidationFails

\* the last call's range [addr, addr + size) lies inside the user region
InRegion ==
    call.addr >= FLASH_CFG_START_ADDR /\ call.addr + call.size <= RegionEnd

OpIndexes == 1..Len(call.ops)

(***************************************************************************)
(* C1: read, write and erase, called while initialised with a non-null     *)
(* buffer, reject with an error status every request whose end addr + size *)
(* lies beyond the end of the user region, and accept a request that ends  *)
(* exactly at the end of the region and starts at or after its start.      *)
(***************************************************************************)
C1_RegionEndEnforced ==
    (Returned /\ call.fn \in DataCalls /\ call.was_init /\ ~call.null
      /\ call.addr >= FLASH_CFG_START_ADDR /\ call.addr < RegionEnd
      /\ call.size >= 1) =>
        /\ (call.addr + call.size > RegionEnd) => (call.ret # eFLASH_OK)
        /\ (call.addr + call.size = RegionEnd) => (call.ops # <<>>)

(***************************************************************************)
(* C2: with assertions compiled out, a read, write or erase call that      *)
(* fails input validation returns an error status, issues no controller    *)
(* operation and leaves the init flag as it was; and no program or erase   *)
(* operation is issued before the first successful flash_init.             *)
(***************************************************************************)
C2_RejectedCallsDoNothing ==
    /\ (~cfg.assert_en /\ call.fn \in DataCalls /\ ValidationFails) =>
          /\ ~halted
          /\ call.ret = eFLASH_ERROR
          /\ call.ret # eFLASH_OK
          /\ call.ops = <<>>
          /\ gb_is_init = call.was_init
    /\ (\E i \in OpIndexes : call.ops[i].op \in {"program", "erase"}) => inited_once

\* an initialised driver has rejected a write below the region, and the
\* caller holds the error
C2_Witness ==
    /\ ~cfg.assert_en /\ call.fn = "write" /\ call.was_init /\ ~call.null
    /\ call.addr < FLASH_CFG_START_ADDR /\ call.size >= 1
    /\ call.ret = eFLASH_ERROR

(***************************************************************************)
(* C3: whenever HAL_FLASHEx_Erase reports failure for a request issued in  *)
(* an accepted flash_erase call, flash_erase returns eFLASH_ERROR, a value *)
(* different from eFLASH_OK; it returns eFLASH_OK only if every request    *)
(* it issued succeeded.  All three variants.  Stated for the erases of at  *)
(* least one byte that lie inside the user region.                         *)
(***************************************************************************)
C3_EraseFailureReported ==
    (Returned /\ call.fn = "erase" /\ Accepted /\ InRegion /\ call.size >= 1) =>
        /\ (\E i \in OpIndexes : ~call.ops[i].ok) =>
              (call.ret = eFLASH_ERROR /\ call.ret # eFLASH_OK)
        /\ (call.ret = eFLASH_OK) => (\A i \in OpIndexes : call.ops[i].ok)

(***************************************************************************)
(* C4: a dual-bank erase submits its requests in the order bank 1, bank 2, *)
(* never two for the same bank, and stops at the first failure: no request *)
(* is submitted after a request that failed.  Stated for the erases that   *)
(* lie inside the user region.                                             *)
(***************************************************************************)
C4_DualBankStopsAtFirstFailure ==
    (cfg.variant = "dual" /\ call.fn = "erase" /\ Accepted /\ InRegion) =>
        \A i, j \in OpIndexes :
            (i < j) => (call.ops[i].bank < call.ops[j].bank /\ call.ops[i].ok)

(***************************************************************************)
(* The requests of an erase and the sub-ranges they come from              *)
(***************************************************************************)
\* the sub-range of the last (dual-bank) erase in the bank
SubRange(bank) == call.bank_data[bank]

\* the sub-range of the request: in the single-bank variants, the range
SubAddr(op) == IF cfg.variant = "dual" THEN SubRange(op.bank).addr ELSE call.addr
SubSize(op) == IF cfg.variant = "dual" THEN SubRange(op.bank).size ELSE call.size

\* the page count the driver computes for the request's sub-range
ComputedCount(op) == flash_count_page(SubAddr(op), SubSize(op))

\* the start page the driver computes for the request's sub-range
ComputedStartPage(op) ==
    U32(SubAddr(op) + AddrSpace - gu32_flash_base(op.bank)) \div PageSize

IsPageRequest(op) ==
    /\ op.type = "PAGES"
    /\ op.page = ComputedStartPage(op)
    /\ op.nb = ComputedCount(op)

(***************************************************************************)
(* C5 as claimed: in every variant, each request of an accepted erase is   *)
(* a mass erase of its bank if and only if the page count of the bank's    *)
(* sub-range equals FLASH_PAGE_NB, and otherwise a page erase with the     *)
(* computed start page, page count and bank.  Stated for the erases that   *)
(* lie inside the user region.                                             *)
(***************************************************************************)
C5_MassEraseIffWholeBank ==
    (call.fn = "erase" /\ Accepted /\ InRegion) =>
        \A i \in OpIndexes :
            LET op == call.ops[i] IN
            IF ComputedCount(op) = FLASH_PAGE_NB
            THEN op.type = "MASSERASE"
            ELSE IsPageRequest(op)

(***************************************************************************)
(* C5 as amended: in the dual-bank variant each request is a mass erase of *)
(* its bank if and only if the page count of the bank's sub-range equals   *)
(* FLASH_PAGE_NB, and otherwise a page erase with the computed start page, *)
(* page count and bank; in the single-bank variant and in the older driver *)
(* the one request is always a page erase of bank 1 with the computed      *)
(* start page and page count, also when the count equals FLASH_PAGE_NB.    *)
(***************************************************************************)
C5_MassEraseOnlyInDualBank ==
    (call.fn = "erase" /\ Accepted) =>
        \A i \in OpIndexes :
            LET op == call.ops[i] IN
            /\ op.op = "erase"
            /\ IF cfg.variant = "dual"
               THEN /\ SubSize(op) >= 1
                    /\ (op.bank = eFLASH_BANK_1) = (SubAddr(op) < FLASH_CFG_BANK2_START_ADDR)
                    /\ IF ComputedCount(op) = FLASH_PAGE_NB
                       THEN op.type = "MASSERASE"
                       ELSE IsPageRequest(op)
               ELSE /\ op.bank = eFLASH_BANK_1
                    /\ IsPageRequest(op)

\* a dual-bank erase has issued a page erase in bank 1 and then a mass erase
\* of bank 2
C5_Witness ==
    /\ cfg.variant = "dual" /\ call.fn = "erase" /\ Accepted /\ InRegion
    /\ Len(call.ops) = 2
    /\ call.ops[1].type = "PAGES" /\ call.ops[1].bank = eFLASH_BANK_1
    /\ call.ops[2].type = "MASSERASE" /\ call.ops[2].bank = eFLASH_BANK_2

(***************************************************************************)
(* C6: once a flash_init call has succeeded, every further flash_init call *)
(* with no flash_deinit in between returns eFLASH_OK, performs no          *)
(* controller operation and leaves the init flag set.                      *)
(***************************************************************************)
C6_InitIdempotent ==
    (call.fn = "init" /\ call.was_since_init) =>
        /\ call.ret = eFLASH_OK
        /\ call.ops = <<>>
        /\ gb_is_init = TRUE

\* a second flash_init has returned
C6_Witness ==
    call.fn = "init" /\ call.was_since_init /\ call.ret = eFLASH_OK /\ gb_is_init

(***************************************************************************)
(* C7: flash_deinit called while the driver is not initialised returns     *)
(* eFLASH_OK, issues no controller operation and leaves the init flag      *)
(* clear.                                                                  *)
(***************************************************************************)
C7_DeinitWhenNotInit ==
    (call.fn = "deinit" /\ ~call.was_init) =>
        /\ call.ret = eFLASH_OK
        /\ call.ops = <<>>
        /\ gb_is_init = FALSE

\* flash_deinit has returned after a flash_init that failed (the clock is
\* on, the flash was never unlocked by the driver)
C7_Witness ==
    /\ call.fn = "deinit" /\ ~call.was_init /\ call.ret = eFLASH_OK
    /\ clk_en /\ ~inited_once /\ ~gb_is_init

(***************************************************************************)
(* C8: an accepted flash_write issues one program operation per 8-byte     *)
(* unit, at the addresses addr, addr + 8, addr + 16, ... in ascending      *)
(* order, and stops at the first failure: no operation follows a failed    *)
(* one and the call then returns eFLASH_ERROR; if none fails, exactly      *)
(* ceil(size / 8) operations are issued and the call returns eFLASH_OK.    *)
(***************************************************************************)
UnitsOf(size) == (size + DWordBytes - 1) \div DWordBytes

C8_WriteUnitsInOrder ==
    (call.fn = "write" /\ Accepted) =>
        /\ ~halted
        /\ \A k \in OpIndexes :
              /\ call.ops[k].op = "program"
              /\ call.ops[k].addr = call.addr + DWordBytes * (k - 1)
              /\ (k < Len(call.ops)) => call.ops[k].ok
        /\ Len(call.ops) <= UnitsOf(call.size)
        /\ IF \E k \in OpIndexes : ~call.ops[k].ok
           THEN call.ret = eFLASH_ERROR
           ELSE Len(call.ops) = UnitsOf(call.size) /\ call.ret = eFLASH_OK

(***************************************************************************)
(* C9: flash_erase(addr, 0) returns an error status and submits no erase   *)
(* request to the controller, for every addr and in every variant.         *)
(***************************************************************************)
C9_ZeroSizeEraseRejected ==
    (Returned /\ call.fn = "erase" /\ call.size = 0) =>
        (call.ret # eFLASH_OK /\ call.ops = <<>>)

(***************************************************************************)
(* C10: in the dual-bank variant, with B the base address of bank 2, an    *)
(* accepted erase of [addr, addr + size), size >= 1, that returns submits  *)
(* exactly one request, for the bank, if the range lies within one bank    *)
(* (a range of bank 1 may end at B); if addr < B < addr + size it submits  *)
(* exactly two, the first for bank 1 from the sub-range [addr, B) of size  *)
(* B - addr, the second for bank 2 from the sub-range [B, addr + size) of  *)
(* size size - (B - addr).  The sizes of the sub-ranges sum to size and no *)
(* bank gets two requests.                                                 *)
(***************************************************************************)
\* pages that the byte range [addr, addr + size) intersects, size >= 1,
\* in unbounded integers
PagesOfRange(addr, size) ==
    ((addr + size - 1) \div PageSize) - (addr \div PageSize) + 1

\* op is the request for the bank that the sub-range [addr, addr + size)
\* asks for
RequestFor(op, bank, addr, size) ==
    /\ op.op = "erase"
    /\ op.bank = bank
    /\ SubRange(bank) = [addr |-> addr, size |-> size]
    /\ IF PagesOfRange(addr, size) = FLASH_PAGE_NB
       THEN op.type = "MASSERASE"
       ELSE /\ op.type = "PAGES"
            /\ op.page = (addr - gu32_flash_base(bank)) \div PageSize
            /\ op.nb = PagesOfRange(addr, size)

BankEnd(bank) == gu32_flash_base(bank) + FLASH_PAGE_NB * PageSize

C10_DualBankSplit ==
    (Returned /\ cfg.variant = "dual" /\ call.fn = "erase" /\ Accepted
      /\ call.size >= 1) =>
        LET B == FLASH_CFG_BANK2_START_ADDR
            a == call.addr
            n == call.size
        IN  /\ SubRange(eFLASH_BANK_1).size + SubRange(eFLASH_BANK_2).size = n
            /\ \A i, j \in OpIndexes :
                  (i # j) => (call.ops[i].bank # call.ops[j].bank)
            /\ (a >= gu32_flash_base(eFLASH_BANK_1) /\ a + n <= B) =>
                  /\ Len(call.ops) = 1
                  /\ RequestFor(call.ops[1], eFLASH_BANK_1, a, n)
            /\ (a >= B /\ a + n <= BankEnd(eFLASH_BANK_2)) =>
                  /\ Len(call.ops) = 1
                  /\ RequestFor(call.ops[1], eFLASH_BANK_2, a, n)
            /\ (a < B /\ B < a + n) =>
                  /\ Len(call.ops) = 2
                  /\ RequestFor(call.ops[1], eFLASH_BANK_1, a, B - a)
                  /\ RequestFor(call.ops[2], eFLASH_BANK_2, B, n - (B - a))

\* the range [B - 1, B + 1) has been erased by two requests
C10_Witness ==
    /\ Returned /\ cfg.variant = "dual" /\ call.fn = "erase" /\ Accepted
    /\ InRegion
    /\ call.addr = FLASH_CFG_BANK2_START_ADDR - 1 /\ call.size = 2
    /\ Len(call.ops) = 2
    /\ SubRange(eFLASH_BANK_1).size = 1 /\ SubRange(eFLASH_BANK_2).size = 1

(***************************************************************************)
(* C11: for every addr and size >= 1 with addr + size within the address   *)
(* space, flash_count_page(addr, size) is the number of distinct pages     *)
(* that the byte range [addr, addr + size) intersects, which is            *)
(* floor((addr + size - 1) / P) - floor(addr / P) + 1; it is 1 when the    *)
(* range lies inside one page and size / P when addr is page aligned and   *)
(* size is a multiple of P.                                                *)
(***************************************************************************)
\* the pages of the address space that hold a byte of [addr, addr + size)
PagesTouched(addr, size) ==
    { p \in 0..(AddrSpace \div PageSize) :
        p * PageSize < addr + size /\ (p + 1) * PageSize > addr }

C11_CountPageIsPagesTouched ==
    (call.fn = "count_page" /\ call.size >= 1
      /\ call.addr + call.size <= AddrSpace) =>
        /\ call.ret = Cardinality(PagesTouched(call.addr, call.size))
        /\ call.ret = PagesOfRange(call.addr, call.size)
        /\ ((call.addr % PageSize) + call.size <= PageSize) => (call.ret = 1)
        /\ (call.addr % PageSize = 0 /\ call.size % PageSize = 0) =>
              (call.ret = call.size \div PageSize)

\* a range that starts and ends inside a page and covers one page between
C11_Witness ==
    /\ call.fn = "count_page"
    /\ call.addr % PageSize # 0 /\ (call.addr + call.size) % PageSize # 0
    /\ call.addr + call.size <= AddrSpace
    /\ call.size > PageSize /\ call.size < 2 * PageSize
    /\ call.ret = 3

(***************************************************************************)
(* C12: every page-erase request that an accepted flash_erase submits to   *)
(* the controller satisfies start_page + page_count <= FLASH_PAGE_NB, the  *)
(* number of pages of the bank it targets, for every addr and size that    *)
(* pass the entry guard, in the single-bank and in the dual-bank           *)
(* configuration.  Stated for the requests of at least one byte that end   *)
(* within the address space.                                               *)
(***************************************************************************)
C12_PageRequestWithinBank ==
    (call.fn = "erase" /\ Accepted /\ cfg.variant \in {"single", "dual"}
      /\ call.size >= 1 /\ call.addr + call.size <= AddrSpace) =>
        \A i \in OpIndexes :
            call.ops[i].type = "PAGES" =>
                call.ops[i].page + call.ops[i].nb <= FLASH_PAGE_NB

(***************************************************************************)
(* C13: for every accepted erase of [addr, addr + size) with size >= 1 in  *)
(* which all controller requests succeed, the set of physical pages erased *)
(* (a page request expanded to start_page .. start_page + page_count - 1   *)
(* from the bank base, a mass erase expanded to all pages of the bank) is  *)
(* exactly the set of pages that intersect [addr, addr + size).  Stated    *)
(* for the requests that end within the address space.                     *)
(***************************************************************************)
\* the number, counted from address 0, of the first page of a bank
BankFirstPage(bank) == gu32_flash_base(bank) \div PageSize

\* the pages, counted from address 0, that one erase request erases
ErasedBy(op) ==
    IF op.type = "MASSERASE"
    THEN { BankFirstPage(op.bank) + k : k \in 0..(FLASH_PAGE_NB - 1) }
    ELSE { BankFirstPage(op.bank) + op.page + k : k \in 0..(op.nb - 1) }

ErasedPages == UNION { ErasedBy(call.ops[i]) : i \in OpIndexes }

AllRequestsSucceed == \A i \in OpIndexes : call.ops[i].ok

C13_ErasedPagesAreTouchedPages ==
    (call.fn = "erase" /\ Accepted /\ Returned /\ AllRequestsSucceed
      /\ call.size >= 1 /\ call.addr + call.size <= AddrSpace) =>
        ErasedPages = PagesTouched(call.addr, call.size)

(***************************************************************************)
(* C14: the init flag is written only by flash_init and flash_deinit:      *)
(* every call of flash_read, flash_write, flash_erase and flash_is_init,   *)
(* whether it succeeds, is rejected or meets a controller failure, leaves  *)
(* the flag at the value it had before the call.                           *)
(***************************************************************************)
C14_FlagWrittenOnlyByInitDeinit ==
    (call.fn \in {"read", "write", "erase", "is_init"}) =>
        gb_is_init = call.was_init

\* an accepted write whose program operation failed has returned an error,
\* and the flag is still set
C14_Witness ==
    /\ call.fn = "write" /\ Accepted /\ Returned
    /\ call.ret = eFLASH_ERROR
    /\ \E i \in OpIndexes : ~call.ops[i].ok
    /\ call.was_init /\ gb_is_init

(***************************************************************************)
(* C15: after any sequence of init, deinit, read, write and erase calls,   *)
(* whatever the unlock and lock operations of the controller return (a     *)
(* failed unlock or lock leaves the lock state unchanged, nothing else     *)
(* locks the flash), the init flag is true exactly when the controller is  *)
(* unlocked: a failed unlock leaves the flag false, a failed lock leaves   *)
(* it true, and a later init or deinit issues the operation again.  So     *)
(* every program and erase operation is issued while the flash is          *)
(* unlocked.                                                               *)
(***************************************************************************)
HasOp(name, ok) ==
    \E i \in OpIndexes : call.ops[i].op = name /\ call.ops[i].ok = ok

C15_FlagIffUnlocked ==
    /\ gb_is_init = ~locked
    /\ (call.fn = "init" /\ HasOp("unlock", FALSE)) => ~gb_is_init
    /\ (call.fn = "deinit" /\ HasOp("lock", FALSE)) => gb_is_init
    /\ (call.fn = "init" /\ ~call.was_init) =>
          \E i \in OpIndexes : call.ops[i].op = "unlock"
    /\ (call.fn = "deinit" /\ call.was_init) =>
          \E i \in OpIndexes : call.ops[i].op = "lock"
    /\ (\E i \in OpIndexes : call.ops[i].op \in {"program", "erase"}) => ~locked

\* a flash_deinit whose lock failed has returned an error: the flag is still
\* set and the flash still unlocked
C15_Witness ==
    /\ call.fn = "deinit" /\ call.was_init /\ call.ret = eFLASH_ERROR
    /\ HasOp("lock", FALSE)
    /\ gb_is_init /\ ~locked

(***************************************************************************)
(* C16: for every accepted flash_write(addr, size, data), also when size   *)
(* is not a multiple of 8, every flash byte programmed lies inside         *)
(* [addr, addr + size) and every source byte read lies inside              *)
(* data[0 .. size - 1]; no program unit extends past addr + size and none  *)
(* reaches past the end of the user region.  Stated for the writes whose   *)
(* range lies inside the user region.                                      *)
(***************************************************************************)
C16_WriteConfined ==
    (call.fn = "write" /\ Accepted /\ InRegion) =>
        \A i \in OpIndexes :
            LET op == call.ops[i] IN
            /\ op.addr >= call.addr
            /\ op.addr + op.len <= call.addr + call.size
            /\ op.off + op.len <= call.size
            /\ op.addr + op.len <= RegionEnd

====
